---- MODULE Spec2Model ----
(***************************************************************************)
(* SNSMeet detection demo: the peer session protocol of the host page and  *)
(* the participant page (src/unnamed/part_001, second script), the relay   *)
(* events their handlers react to, the meeting-id generators and the       *)
(* track-level control plane.                                              *)
(*                                                                         *)
(* Strings are sequences of one-character strings, so that substring,      *)
(* trim and toUpperCase are computed and not assumed.                      *)
(***************************************************************************)
EXTENDS Integers, Sequences, FiniteSets, TLC

\* ------------------------------------------------------------------ bounds
\* longest fractional expansion of a Math.random() value that is enumerated
MaxFracDigits == 9
\* Peers the participant page may create (connectToHost runs)
MaxDials == 2
\* loads of the host page (first load plus reloads made by endCall)
MaxLoads == 2
\* audio tracks and video tracks of a captured stream in the control plane
MaxTracks == 2
\* display ticks that pass the stream guard (frameCount values enumerated)
MaxFrames == 21
\* faces one estimateFaces call reports
MaxFaces == 2
\* updateVisuals calls made on a chart that is full
MaxCalls == 3

\* ------------------------------------------------------ strings as Seq(char)
Min(a, b) == IF a < b THEN a ELSE b

LowerChars == <<"0","1","2","3","4","5","6","7","8","9",
                "a","b","c","d","e","f","g","h","i","j","k","l","m",
                "n","o","p","q","r","s","t","u","v","w","x","y","z">>

UpperChars == <<"0","1","2","3","4","5","6","7","8","9",
                "A","B","C","D","E","F","G","H","I","J","K","L","M",
                "N","O","P","Q","R","S","T","U","V","W","X","Y","Z">>

Range(f) == {f[i] : i \in DOMAIN f}

AlnumChars == Range(LowerChars) \cup Range(UpperChars)

\* String.prototype.substring(a, b) with 0 <= a <= b
Substring(s, a, b) == SubSeq(s, Min(a, Len(s)) + 1, Min(b, Len(s)))

UpperOf(c) ==
  IF \E i \in 1..36 : LowerChars[i] = c
  THEN UpperChars[CHOOSE i \in 1..36 : LowerChars[i] = c]
  ELSE c

\* String.prototype.toUpperCase
ToUpperCase(s) == [i \in 1..Len(s) |-> UpperOf(s[i])]

LowerOf(c) ==
  IF \E i \in 1..36 : UpperChars[i] = c
  THEN LowerChars[CHOOSE i \in 1..36 : UpperChars[i] = c]
  ELSE c

\* String.prototype.toLowerCase
ToLowerCase(s) == [i \in 1..Len(s) |-> LowerOf(s[i])]

RECURSIVE TrimLeft(_)
TrimLeft(s) == IF s # <<>> /\ Head(s) = " " THEN TrimLeft(Tail(s)) ELSE s

RECURSIVE TrimRight(_)
TrimRight(s) ==
  IF s # <<>> /\ s[Len(s)] = " " THEN TrimRight(SubSeq(s, 1, Len(s) - 1)) ELSE s

\* String.prototype.trim
Trim(s) == TrimRight(TrimLeft(s))

\* Number.prototype.toString(radix) of a value of Math.random(), a number in
\* [0, 1) given by the digits of its fraction in that radix (no trailing zero;
\* the empty expansion is the number 0, printed "0")
ToStringRadix(frac) ==
  IF frac = <<>> THEN <<"0">>
  ELSE <<"0", ".">> \o [i \in 1..Len(frac) |-> LowerChars[frac[i] + 1]]

\* generateMeetingId(): Math.random().toString(16).substring(2, 10).toUpperCase()
generateMeetingId(frac) == ToUpperCase(Substring(ToStringRadix(frac), 2, 10))

\* handleHostSession's inline generator:
\* Math.random().toString(36).substring(2, 9).toUpperCase()
InlineHostId(frac) == ToUpperCase(Substring(ToStringRadix(frac), 2, 9))

\* the format check of joinMeeting: !id || id.length !== 8 rejects
FormatAccepts(id) == ~(id = <<>> \/ Len(id) # 8)

\* the digits a sampled random value is written with, in a given radix
DigitSample(radix) == {0, 1, radix - 1}

\* the sampled values of Math.random(), as fraction digits in the radix
RandomValues(radix) ==
  UNION {{f \in [1..n -> DigitSample(radix)] : n = 0 \/ f[n] # 0} :
         n \in 0..MaxFracDigits}


\* ------------------------------------------------------------------- state
VARIABLES
  pc,             \* per page: position of init()
  loads,          \* number of loads of the host page so far
  listeners,      \* per page: the click listeners init() has attached
  localStream,    \* per page: the global localStream (None is null)
  streams,        \* every MediaStream captured so far: its tracks
  peer,           \* per page: the global peer (None is null)
  peers,          \* every Peer object constructed so far
  calls,          \* every media call made with peer.call, by dial attempt
  status,         \* per page: statusElement.innerHTML
  joinScreen,     \* participant page: joinScreen.style.display
  meetingRoom,    \* participant page: meetingRoom.style.display
  idDisplay,      \* per page: meetingIdDisplay / currentMeetingIdDisplay text
  remoteSrc,      \* per page: srcObject of the remote video (None is none)
  url,            \* per page: the id parameter of the page address
  inputValue,     \* participant page: meetingIdInput.value
  errors,         \* per page: the exceptions thrown by handlers
  isModelReady,   \* host page
  isAudioEnabled, \* per page
  isVideoEnabled, \* per page
  muteButton,     \* per page: innerHTML and 'active' class of muteButton
  videoButton,    \* per page: innerHTML and 'active' class of videoButton
  previewVisibility, \* per page: style.visibility of canvas / local video
  frameCount,     \* host page: the display loop's counter
  detectedAt,     \* host page: the frameCount values detection was started at
  lastDetectionResult, \* host page: isFake and confidence (in hundredths)
  removalAlert,   \* host page: style.display of removal-alert
  chartLabels,    \* host page: confidenceChart.data.labels
  chartData,      \* host page: confidenceChart.data.datasets[0].data
  predictions,    \* host page: lastDetectionResult.predictions
  runs,           \* host page: the detectDeepfakeArtifacts calls made so far
  confidenceRun,  \* the run, if any, that assigned lastDetectionResult.confidence
  rand,           \* identifier generator: the value of the random source
  minted,         \* identifier generator: the identifier last generated
  verdict         \* identifier generator: outcome of the format check

vars == <<pc, loads, listeners, localStream, streams, peer, peers, calls,
          status, joinScreen, meetingRoom, idDisplay, remoteSrc, url,
          inputValue, errors, isModelReady, isAudioEnabled, isVideoEnabled,
          muteButton, videoButton, previewVisibility,
          frameCount, detectedAt, lastDetectionResult, removalAlert,
          chartLabels, chartData, predictions, runs, confidenceRun,
          rand, minted, verdict>>

\* the host page (has meeting-id-display, no join screen) and the
\* participant page (has join-screen and meeting-room)
Pages == {"H", "P"}

\* null, and the empty string
None == <<>>

\* isHost = meetingIdDisplay !== null
isHost(pg) == pg = "H"

\* URLSearchParams.get('id'): the id parameter, None when absent
getUrlMeetingID(pg) == url[pg]

\* the tracks of a stream with nA audio tracks and nV video tracks, as
\* getUserMedia delivers it: every track enabled and live
MkStream(nA, nV) ==
  [i \in 1..(nA + nV) |->
     [kind |-> IF i <= nA THEN "audio" ELSE "video",
      enabled |-> TRUE, live |-> TRUE]]

\* the value Math.random() takes in handleHostSession on the n-th load of
\* the host page, as fraction digits in radix 36: a fresh value each time
HostRandom(n) == <<n, 11, 1, 2, 12, 13, 3, 5>>

\* the identifier the host mints on its first load, which is the one the
\* participant is given
HostId == InlineHostId(HostRandom(1))

\* what the user may have in the join input when clicking Join
JoinInputs ==
  { <<>>,
    <<" ">> \o HostId \o <<" ">>,
    <<"A","B","!">> }

\* the id parameter the participant page may be opened with: none, the
\* host's id as displayed, or the same id written in lower case
UrlInputs == { <<>>, HostId, ToLowerCase(HostId) }

\* objects are named by the page that made them and a serial number: the
\* host page makes at most one stream and one Peer per load, named by the
\* load; the participant page one stream, and one Peer per connectToHost run
PeersOf(pg) == {p \in DOMAIN peers : p[1] = pg}

StreamsOf(pg) == {s \in DOMAIN streams : s[1] = pg}

\* the handlers registered on a Peer exist as long as its page is not
\* reloaded; only the host page reloads
HandlersAlive(p) == p[1] = "P" \/ p[2] = loads

\* the relay delivers events over the socket and the connections of a Peer,
\* which destroy() closes
Connected(p) == HandlersAlive(p) /\ ~peers[p].destroyed

idVars == <<rand, minted, verdict>>

ctlVars == <<isAudioEnabled, isVideoEnabled, muteButton, videoButton,
             previewVisibility>>

chartVars == <<chartLabels, chartData>>

runVars == <<predictions, runs, confidenceRun>>

detVars == <<frameCount, detectedAt, lastDetectionResult, removalAlert,
             chartVars, runVars>>

\* let lastDetectionResult = { isFake: false, ..., confidence: 0, ... }
LastDetectionResult0 == [isFake |-> FALSE, confidence |-> 0]

\* the buttons and the preview as the page is delivered
MuteButton0 == [label |-> "Mute", active |-> FALSE]

VideoButton0 == [label |-> "Video Off", active |-> FALSE]

Init ==
  /\ pc = [pg \in Pages |-> "gum"]
  /\ loads = 1
  /\ listeners = [pg \in Pages |-> {}]
  /\ localStream = [pg \in Pages |-> None]
  /\ streams = <<>>
  /\ peer = [pg \in Pages |-> None]
  /\ peers = <<>>
  /\ calls = <<>>
  /\ status = [pg \in Pages |-> "Requesting"]
  /\ joinScreen = "block"
  /\ meetingRoom = "none"
  /\ idDisplay = [pg \in Pages |-> None]
  /\ remoteSrc = [pg \in Pages |-> None]
  /\ \E u \in UrlInputs : url = [H |-> None, P |-> u]
  /\ inputValue = None
  /\ errors = [pg \in Pages |-> {}]
  /\ isModelReady = FALSE
  /\ isAudioEnabled = [pg \in Pages |-> TRUE]
  /\ isVideoEnabled = [pg \in Pages |-> TRUE]
  /\ muteButton = [pg \in Pages |-> MuteButton0]
  /\ videoButton = [pg \in Pages |-> VideoButton0]
  /\ previewVisibility = [pg \in Pages |-> "visible"]
  /\ frameCount = 0
  /\ detectedAt = {}
  /\ lastDetectionResult = LastDetectionResult0
  /\ removalAlert = "none"
  /\ chartLabels = <<>>
  /\ chartData = <<>>
  /\ predictions = <<>>
  /\ runs = <<>>
  /\ confidenceRun = {}
  /\ rand = None
  /\ minted = None
  /\ verdict = "none"

\* ------------------------------------------------------- session operations
\* new Peer(id, ...) assigned to the global peer
NewPeer(pg, id, target) ==
  LET p == <<pg, IF isHost(pg) THEN loads ELSE Cardinality(PeersOf(pg)) + 1>>
  IN /\ peers' = peers @@ (p :> [id |-> id, target |-> target,
                                 opened |-> FALSE, destroyed |-> FALSE])
     /\ peer' = [peer EXCEPT ![pg] = p]

\* handleHostSession(): the id of the page address or a fresh one, then the
\* Peer; its handlers are the actions HostOpen, HostCall, HostStream, PeerError
handleHostSession ==
  LET hostID == IF getUrlMeetingID("H") # None THEN getUrlMeetingID("H")
                ELSE InlineHostId(HostRandom(loads))
  IN NewPeer("H", hostID, None)

\* connectToHost(hostID): the guard, then screens, display, status and the
\* Peer; its handlers are the actions PartOpen, PartStream, CallError, PeerError
connectToHost(hostID) ==
  IF hostID = None
  THEN UNCHANGED <<joinScreen, meetingRoom, idDisplay, status, peer, peers>>
  ELSE /\ joinScreen' = "none"
       /\ meetingRoom' = "flex"
       /\ idDisplay' = [idDisplay EXCEPT !["P"] = hostID]
       /\ status' = [status EXCEPT !["P"] = "InitPeer"]
       /\ NewPeer("P", None, hostID)

\* the bound on the Peers of the participant page
MayDial(hostID) == hostID = None \/ Cardinality(PeersOf("P")) < MaxDials

\* setupWebcam: getUserMedia resolves; the stream becomes localStream
GumResolve(pg) ==
  /\ pc[pg] = "gum"
  /\ LET s == <<pg, IF isHost(pg) THEN loads ELSE 1>>
     IN /\ streams' = streams @@ (s :> MkStream(1, 1))
        /\ localStream' = [localStream EXCEPT ![pg] = s]
  /\ pc' = [pc EXCEPT ![pg] = "meta"]
  /\ UNCHANGED <<loads, listeners, peer, peers, calls, status, joinScreen,
                 meetingRoom, idDisplay, remoteSrc, url, inputValue, errors,
                 isModelReady, ctlVars, idVars, detVars>>

\* GumReject after which init() goes on as if the webcam were ready
GumRejectProceeds(pg) ==
  /\ pc[pg] = "gum"
  /\ status' = [status EXCEPT ![pg] = "WebcamError"]
  /\ pc' = [pc EXCEPT ![pg] = "meta"]
  /\ UNCHANGED <<loads, listeners, localStream, streams, peer, peers, calls,
                 joinScreen, meetingRoom, idDisplay, remoteSrc, url,
                 inputValue, errors, isModelReady, ctlVars, idVars, detVars>>

\* setupWebcam: getUserMedia rejects; init() skips the session and attaches
\* the control listeners
GumReject(pg) ==
  /\ pc[pg] = "gum"
  /\ status' = [status EXCEPT ![pg] = "WebcamError"]
  /\ listeners' = [listeners EXCEPT ![pg] = {"controls"}]
  /\ pc' = [pc EXCEPT ![pg] = "ready"]
  /\ UNCHANGED <<loads, localStream, streams, peer, peers, calls, joinScreen,
                 meetingRoom, idDisplay, remoteSrc, url, inputValue, errors,
                 isModelReady, ctlVars, idVars, detVars>>

\* host: onloadedmetadata resolves setupWebcam; loadModels() runs to its
\* await, or returns at once when the model libraries are missing and
\* init() goes on to handleHostSession()
HostMetaLoaded(libs) ==
  /\ pc["H"] = "meta"
  /\ IF libs
     THEN /\ status' = [status EXCEPT !["H"] = "LoadingModels"]
          /\ pc' = [pc EXCEPT !["H"] = "models"]
          /\ UNCHANGED <<peer, peers, listeners>>
     ELSE /\ status' = [status EXCEPT !["H"] = "LibsMissing"]
          /\ handleHostSession
          /\ listeners' = [listeners EXCEPT !["H"] = {"controls"}]
          /\ pc' = [pc EXCEPT !["H"] = "ready"]
  /\ UNCHANGED <<loads, localStream, streams, calls, joinScreen, meetingRoom,
                 idDisplay, remoteSrc, url, inputValue, errors, isModelReady,
                 ctlVars, idVars, detVars>>

\* host: both model loads resolve; then handleHostSession()
ModelsLoaded ==
  /\ pc["H"] = "models"
  /\ isModelReady' = TRUE
  /\ status' = [status EXCEPT !["H"] = "ModelsReady"]
  /\ handleHostSession
  /\ listeners' = [listeners EXCEPT !["H"] = {"controls"}]
  /\ pc' = [pc EXCEPT !["H"] = "ready"]
  /\ UNCHANGED <<loads, localStream, streams, calls, joinScreen, meetingRoom,
                 idDisplay, remoteSrc, url, inputValue, errors,
                 ctlVars, idVars, detVars>>

\* host: a model load rejects; the await in init() throws and init() ends
ModelsReject ==
  /\ pc["H"] = "models"
  /\ pc' = [pc EXCEPT !["H"] = "dead"]
  /\ errors' = [errors EXCEPT !["H"] = @ \cup {"loadModels"}]
  /\ UNCHANGED <<loads, listeners, localStream, streams, peer, peers, calls,
                 status, joinScreen, meetingRoom, idDisplay, remoteSrc, url,
                 inputValue, isModelReady, ctlVars, idVars, detVars>>

\* PartMetaLoaded that fills the input from the page address and does not dial
PartMetaLoadedNoDial ==
  /\ pc["P"] = "meta"
  /\ LET urlId == getUrlMeetingID("P")
     IN inputValue' = IF urlId # None THEN urlId ELSE inputValue
  /\ listeners' = [listeners EXCEPT !["P"] = {"join", "controls"}]
  /\ pc' = [pc EXCEPT !["P"] = "ready"]
  /\ UNCHANGED <<loads, localStream, streams, calls, remoteSrc, url, errors,
                 isModelReady, ctlVars, idVars, detVars, joinScreen,
                 meetingRoom, idDisplay, status, peer, peers>>

\* participant: onloadedmetadata resolves setupWebcam; init() dials the id
\* of the page address, if any, and attaches the listeners
PartMetaLoaded ==
  /\ pc["P"] = "meta"
  /\ LET urlId == getUrlMeetingID("P")
     IN /\ inputValue' = IF urlId # None THEN urlId ELSE inputValue
        /\ connectToHost(urlId)
  /\ listeners' = [listeners EXCEPT !["P"] = {"join", "controls"}]
  /\ pc' = [pc EXCEPT !["P"] = "ready"]
  /\ UNCHANGED <<loads, localStream, streams, calls, remoteSrc, url, errors,
                 isModelReady, ctlVars, idVars, detVars>>

\* JoinClick that registers the page as a host when the input is empty
JoinClickHostsWhenEmpty(v) ==
  /\ "join" \in listeners["P"]
  /\ joinScreen = "block"
  /\ Cardinality(PeersOf("P")) < MaxDials
  /\ inputValue' = v
  /\ IF Trim(v) = None
     THEN /\ NewPeer("P", InlineHostId(HostRandom(loads)), None)
          /\ UNCHANGED <<joinScreen, meetingRoom, idDisplay, status>>
     ELSE connectToHost(Trim(v))
  /\ UNCHANGED <<pc, loads, listeners, localStream, streams, calls, remoteSrc,
                 url, errors, isModelReady, ctlVars, idVars, detVars>>

\* participant: the user types v and clicks Join, which runs
\* connectToHost(meetingIdInput.value.trim())
JoinClick(v) ==
  /\ "join" \in listeners["P"]
  /\ joinScreen = "block"
  /\ MayDial(Trim(v))
  /\ inputValue' = v
  /\ connectToHost(Trim(v))
  /\ UNCHANGED <<pc, loads, listeners, localStream, streams, calls, remoteSrc,
                 url, errors, isModelReady, ctlVars, idVars, detVars>>

\* -------------------------------------------------------------- relay events
\* HostOpen as the looser variant writes it: the open event alone shows the
\* connected status
HostOpenMarksJoined(p) ==
  /\ p \in PeersOf("H")
  /\ Connected(p)
  /\ ~peers[p].opened
  /\ peers' = [peers EXCEPT ![p].opened = TRUE]
  /\ url' = [url EXCEPT !["H"] = peers[p].id]
  /\ idDisplay' = [idDisplay EXCEPT !["H"] = peers[p].id]
  /\ status' = [status EXCEPT !["H"] = "ParticipantJoined"]
  /\ UNCHANGED <<pc, loads, listeners, localStream, streams, peer, calls,
                 joinScreen, meetingRoom, remoteSrc, inputValue, errors,
                 isModelReady, ctlVars, idVars, detVars>>

\* host: peer.on('open', id => ...). The relay registers the Peer under its
\* id unless another open Peer holds that id.
HostOpen(p) ==
  /\ p \in PeersOf("H")
  /\ Connected(p)
  /\ ~peers[p].opened
  /\ ~\E q \in DOMAIN peers :
        /\ q # p
        /\ peers[q].opened /\ ~peers[q].destroyed
        /\ peers[q].id = peers[p].id
  /\ peers' = [peers EXCEPT ![p].opened = TRUE]
  /\ url' = [url EXCEPT !["H"] = peers[p].id]
  /\ idDisplay' = [idDisplay EXCEPT !["H"] = peers[p].id]
  /\ status' = [status EXCEPT !["H"] = "MeetingLive"]
  /\ UNCHANGED <<pc, loads, listeners, localStream, streams, peer, calls,
                 joinScreen, meetingRoom, remoteSrc, inputValue, errors,
                 isModelReady, ctlVars, idVars, detVars>>

\* participant: peer.on('open', () => ...) of the Peer p made by
\* connectToHost(hostID). A Peer made without an id first fetches one and
\* then opens its socket, also when destroy() ran in between, so the event
\* reaches a destroyed Peer too. The handler calls through the global peer,
\* with the hostID of its closure and the global localStream; with the
\* global peer cleared, peer.call throws a TypeError after the status was
\* written.
PartOpen(p) ==
  /\ p \in PeersOf("P")
  /\ HandlersAlive(p)
  /\ ~peers[p].opened
  /\ peers' = [peers EXCEPT ![p].opened = TRUE]
  /\ status' = [status EXCEPT !["P"] = "Calling"]
  /\ IF peer["P"] = None
     THEN /\ errors' = [errors EXCEPT !["P"] = @ \cup {"peer.call"}]
          /\ UNCHANGED calls
     ELSE /\ calls' = calls @@ (p :>
                 [via |-> peer["P"], to |-> peers[p].target,
                  outStream |-> localStream["P"], hostPeer |-> None,
                  answered |-> FALSE, ansStream |-> None])
          /\ UNCHANGED errors
  /\ UNCHANGED <<pc, loads, listeners, localStream, streams, peer, joinScreen,
                 meetingRoom, idDisplay, remoteSrc, url, inputValue,
                 isModelReady, ctlVars, idVars, detVars>>

\* HostCall whose handler writes the status and does not answer
HostCallIgnores(c, p) ==
  /\ c \in DOMAIN calls
  /\ p \in PeersOf("H")
  /\ Connected(p)
  /\ peers[p].opened
  /\ peers[p].id = calls[c].to
  /\ Connected(calls[c].via)
  /\ peers[calls[c].via].opened
  /\ calls[c].hostPeer = None
  /\ status' = [status EXCEPT !["H"] = "IncomingCall"]
  /\ calls' = [calls EXCEPT ![c].hostPeer = p]
  /\ UNCHANGED <<pc, loads, listeners, localStream, streams, peer, peers,
                 joinScreen, meetingRoom, idDisplay, remoteSrc, url,
                 inputValue, errors, isModelReady, ctlVars, idVars, detVars>>

\* host: peer.on('call', call => ...) of the Peer p. The relay routes call c
\* to the Peer registered under the dialled id, once the calling Peer is
\* open. The handler answers with the global localStream.
HostCall(c, p) ==
  /\ c \in DOMAIN calls
  /\ p \in PeersOf("H")
  /\ Connected(p)
  /\ peers[p].opened
  /\ peers[p].id = calls[c].to
  /\ Connected(calls[c].via)
  /\ peers[calls[c].via].opened
  /\ calls[c].hostPeer = None
  /\ status' = [status EXCEPT !["H"] = "IncomingCall"]
  /\ calls' = [calls EXCEPT ![c].hostPeer = p,
                            ![c].answered = TRUE,
                            ![c].ansStream = localStream["H"]]
  /\ UNCHANGED <<pc, loads, listeners, localStream, streams, peer, peers,
                 joinScreen, meetingRoom, idDisplay, remoteSrc, url,
                 inputValue, errors, isModelReady, ctlVars, idVars, detVars>>

\* host: call.on('stream', remoteStream => ...) of an answered call that
\* carries the participant's stream
HostStream(c) ==
  /\ c \in DOMAIN calls
  /\ calls[c].answered
  /\ Connected(calls[c].hostPeer)
  /\ Connected(calls[c].via)
  /\ calls[c].outStream # None
  /\ remoteSrc' = [remoteSrc EXCEPT !["H"] = calls[c].outStream]
  /\ status' = [status EXCEPT !["H"] = "ParticipantJoined"]
  /\ UNCHANGED <<pc, loads, listeners, localStream, streams, peer, peers,
                 calls, joinScreen, meetingRoom, idDisplay, url, inputValue,
                 errors, isModelReady, ctlVars, idVars, detVars>>

\* participant: call.on('stream', remoteStream => ...) of a call the host
\* answered with a stream
PartStream(c) ==
  /\ c \in DOMAIN calls
  /\ calls[c].answered
  /\ Connected(calls[c].via)
  /\ calls[c].ansStream # None
  /\ remoteSrc' = [remoteSrc EXCEPT !["P"] = calls[c].ansStream]
  /\ status' = [status EXCEPT !["P"] = "JoinedHost"]
  /\ UNCHANGED <<pc, loads, listeners, localStream, streams, peer, peers,
                 calls, joinScreen, meetingRoom, idDisplay, url, inputValue,
                 errors, isModelReady, ctlVars, idVars, detVars>>

\* CallError whose handler also releases the local stream
CallErrorHangsUp(c) ==
  /\ c \in DOMAIN calls
  /\ Connected(calls[c].via)
  /\ status' = [status EXCEPT !["P"] = "CallFailed"]
  /\ joinScreen' = "block"
  /\ meetingRoom' = "none"
  /\ localStream' = [localStream EXCEPT !["P"] = None]
  /\ streams' = [s \in DOMAIN streams |->
                   IF s = localStream["P"]
                   THEN [i \in DOMAIN streams[s] |->
                           [streams[s][i] EXCEPT !.live = FALSE]]
                   ELSE streams[s]]
  /\ UNCHANGED <<pc, loads, listeners, peer, peers, calls, idDisplay,
                 remoteSrc, url, inputValue, errors, isModelReady, ctlVars,
                 idVars, detVars>>

\* participant: call.on('error', err => ...)
CallError(c) ==
  /\ c \in DOMAIN calls
  /\ Connected(calls[c].via)
  /\ status' = [status EXCEPT !["P"] = "CallFailed"]
  /\ joinScreen' = "block"
  /\ meetingRoom' = "none"
  /\ UNCHANGED <<pc, loads, listeners, localStream, streams, peer, peers,
                 calls, idDisplay, remoteSrc, url, inputValue, errors,
                 isModelReady, ctlVars, idVars, detVars>>

\* PeerError whose handler registers or dials again
PeerErrorRetries(p) ==
  /\ p \in DOMAIN peers
  /\ Connected(p)
  /\ Cardinality(PeersOf("P")) < MaxDials
  /\ ~isHost(p[1])
  /\ status' = [status EXCEPT ![p[1]] = "ParticipantError"]
  /\ NewPeer("P", None, peers[p].target)
  /\ UNCHANGED <<pc, loads, listeners, localStream, streams, calls,
                 joinScreen, meetingRoom, idDisplay, remoteSrc, url,
                 inputValue, errors, isModelReady, ctlVars, idVars, detVars>>

\* peer.on('error', err => ...) of host and participant
PeerError(p) ==
  /\ p \in DOMAIN peers
  /\ Connected(p)
  /\ status' = [status EXCEPT ![p[1]] =
                  IF isHost(p[1]) THEN "HostError" ELSE "ParticipantError"]
  /\ UNCHANGED <<pc, loads, listeners, localStream, streams, peer, peers,
                 calls, joinScreen, meetingRoom, idDisplay, remoteSrc, url,
                 inputValue, errors, isModelReady, ctlVars, idVars, detVars>>

\* ------------------------------------------------------------------ hang-up
\* StopTracks that stops the audio tracks only
StopAudioOnly(tracks) ==
  [i \in DOMAIN tracks |->
     IF tracks[i].kind = "audio" THEN [tracks[i] EXCEPT !.live = FALSE]
     ELSE tracks[i]]

\* localStream.getTracks().forEach(track => track.stop())
StopTracks(tracks) ==
  [i \in DOMAIN tracks |-> [tracks[i] EXCEPT !.live = FALSE]]

\* endCall that destroys the Peer without testing it: with no Peer the call
\* throws before anything else is done
endCallUnguarded(pg) ==
  /\ "controls" \in listeners[pg]
  /\ pc[pg] = "ready"
  /\ IF peer[pg] = None
     THEN /\ errors' = [errors EXCEPT ![pg] = @ \cup {"endCall"}]
          /\ UNCHANGED <<peers, peer, streams, localStream, status, pc,
                         joinScreen, meetingRoom, url>>
     ELSE /\ peers' = [peers EXCEPT ![peer[pg]].destroyed = TRUE]
          /\ peer' = [peer EXCEPT ![pg] = None]
          /\ streams' = IF localStream[pg] # None
                        THEN [streams EXCEPT ![localStream[pg]] = StopTracks(@)]
                        ELSE streams
          /\ localStream' = [localStream EXCEPT ![pg] = None]
          /\ status' = [status EXCEPT ![pg] = "CallEnded"]
          /\ IF isHost(pg)
             THEN /\ pc' = [pc EXCEPT ![pg] = "reloading"]
                  /\ UNCHANGED <<joinScreen, meetingRoom, url>>
             ELSE /\ joinScreen' = "block"
                  /\ meetingRoom' = "none"
                  /\ url' = [url EXCEPT ![pg] = None]
                  /\ UNCHANGED pc
          /\ UNCHANGED errors
  /\ UNCHANGED <<loads, listeners, calls, idDisplay, remoteSrc, inputValue,
                 isModelReady, ctlVars, idVars, detVars>>

\* endCall(): the cut button. The participant page has the join screen and
\* returns to it; the host page has none and reloads.
endCall(pg) ==
  /\ "controls" \in listeners[pg]
  /\ pc[pg] = "ready"
  /\ peers' = IF peer[pg] # None
              THEN [peers EXCEPT ![peer[pg]].destroyed = TRUE]
              ELSE peers
  /\ peer' = [peer EXCEPT ![pg] = None]
  /\ streams' = IF localStream[pg] # None
                THEN [streams EXCEPT ![localStream[pg]] = StopTracks(@)]
                ELSE streams
  /\ localStream' = [localStream EXCEPT ![pg] = None]
  /\ status' = [status EXCEPT ![pg] = "CallEnded"]
  /\ IF isHost(pg)
     THEN /\ pc' = [pc EXCEPT ![pg] = "reloading"]
          /\ UNCHANGED <<joinScreen, meetingRoom, url>>
     ELSE /\ joinScreen' = "block"
          /\ meetingRoom' = "none"
          /\ url' = [url EXCEPT ![pg] = None]
          /\ UNCHANGED pc
  /\ UNCHANGED <<loads, listeners, calls, idDisplay, remoteSrc, inputValue,
                 errors, isModelReady, ctlVars, idVars, detVars>>

\* window.location.reload() of the host page takes effect: the script state
\* is gone, the page address stays, and init() runs to its first await
Reload ==
  /\ pc["H"] = "reloading"
  /\ loads < MaxLoads
  /\ loads' = loads + 1
  /\ pc' = [pc EXCEPT !["H"] = "gum"]
  /\ listeners' = [listeners EXCEPT !["H"] = {}]
  /\ localStream' = [localStream EXCEPT !["H"] = None]
  /\ peer' = [peer EXCEPT !["H"] = None]
  /\ status' = [status EXCEPT !["H"] = "Requesting"]
  /\ idDisplay' = [idDisplay EXCEPT !["H"] = None]
  /\ remoteSrc' = [remoteSrc EXCEPT !["H"] = None]
  /\ errors' = [errors EXCEPT !["H"] = {}]
  /\ isModelReady' = FALSE
  /\ isAudioEnabled' = [isAudioEnabled EXCEPT !["H"] = TRUE]
  /\ isVideoEnabled' = [isVideoEnabled EXCEPT !["H"] = TRUE]
  /\ muteButton' = [muteButton EXCEPT !["H"] = MuteButton0]
  /\ videoButton' = [videoButton EXCEPT !["H"] = VideoButton0]
  /\ previewVisibility' = [previewVisibility EXCEPT !["H"] = "visible"]
  /\ frameCount' = 0
  /\ detectedAt' = {}
  /\ lastDetectionResult' = LastDetectionResult0
  /\ removalAlert' = "none"
  /\ chartLabels' = <<>>
  /\ chartData' = <<>>
  /\ predictions' = <<>>
  /\ runs' = <<>>
  /\ confidenceRun' = {}
  /\ UNCHANGED <<streams, peers, calls, joinScreen, meetingRoom, url,
                 inputValue, idVars>>

\* the session protocol of the two pages and the relay; the host page is
\* taken with its model libraries present
Next ==
  \/ \E pg \in Pages : GumResolve(pg)
  \/ \E pg \in Pages : GumReject(pg)
  \/ HostMetaLoaded(TRUE)
  \/ ModelsLoaded
  \/ ModelsReject
  \/ PartMetaLoaded
  \/ \E v \in JoinInputs : JoinClick(v)
  \/ \E p \in DOMAIN peers : HostOpen(p)
  \/ \E p \in DOMAIN peers : PartOpen(p)
  \/ \E c \in DOMAIN calls : \E p \in DOMAIN peers : HostCall(c, p)
  \/ \E c \in DOMAIN calls : HostStream(c)
  \/ \E c \in DOMAIN calls : PartStream(c)
  \/ \E c \in DOMAIN calls : CallError(c)
  \/ \E p \in DOMAIN peers : PeerError(p)
  \/ \E pg \in Pages : endCall(pg)
  \/ Reload

Spec == Init /\ [][Next]_vars


\* the session in which the relay reports no error and nobody hangs up
\* (scenario B)
NextLive ==
  \/ \E pg \in Pages : GumResolve(pg)
  \/ \E pg \in Pages : GumReject(pg)
  \/ HostMetaLoaded(TRUE)
  \/ ModelsLoaded
  \/ ModelsReject
  \/ PartMetaLoaded
  \/ \E v \in JoinInputs : JoinClick(v)
  \/ \E p \in DOMAIN peers : HostOpen(p)
  \/ \E p \in DOMAIN peers : PartOpen(p)
  \/ \E c \in DOMAIN calls : \E p \in DOMAIN peers : HostCall(c, p)
  \/ \E c \in DOMAIN calls : HostStream(c)
  \/ \E c \in DOMAIN calls : PartStream(c)

\* the relay delivers every pending event: the open of a Peer, a call to
\* the Peer registered under the dialled id, the streams of an answered call
SpecLive ==
  /\ Init
  /\ [][NextLive]_vars
  /\ WF_vars(\E p \in DOMAIN peers : PartOpen(p))
  /\ WF_vars(\E c \in DOMAIN calls : \E p \in DOMAIN peers : HostCall(c, p))
  /\ WF_vars(\E c \in DOMAIN calls : HostStream(c))
  /\ WF_vars(\E c \in DOMAIN calls : PartStream(c))

\* the whole session protocol under the same fair relay; error events and
\* user actions happen or not
SpecFair ==
  /\ Init
  /\ [][Next]_vars
  /\ WF_vars(\E p \in DOMAIN peers : PartOpen(p))
  /\ WF_vars(\E c \in DOMAIN calls : \E p \in DOMAIN peers : HostCall(c, p))
  /\ WF_vars(\E c \in DOMAIN calls : HostStream(c))
  /\ WF_vars(\E c \in DOMAIN calls : PartStream(c))

\* ------------------------------------------------------- identifier generator
\* the two generators applied to a value of the random source, and the
\* format check of joinMeeting applied to what they return
InitIds ==
  /\ pc = [pg \in Pages |-> "gum"]
  /\ loads = 1
  /\ listeners = [pg \in Pages |-> {}]
  /\ localStream = [pg \in Pages |-> None]
  /\ streams = <<>>
  /\ peer = [pg \in Pages |-> None]
  /\ peers = <<>>
  /\ calls = <<>>
  /\ status = [pg \in Pages |-> "Requesting"]
  /\ joinScreen = "block"
  /\ meetingRoom = "none"
  /\ idDisplay = [pg \in Pages |-> None]
  /\ remoteSrc = [pg \in Pages |-> None]
  /\ url = [pg \in Pages |-> None]
  /\ inputValue = None
  /\ errors = [pg \in Pages |-> {}]
  /\ isModelReady = FALSE
  /\ isAudioEnabled = [pg \in Pages |-> TRUE]
  /\ isVideoEnabled = [pg \in Pages |-> TRUE]
  /\ muteButton = [pg \in Pages |-> MuteButton0]
  /\ videoButton = [pg \in Pages |-> VideoButton0]
  /\ previewVisibility = [pg \in Pages |-> "visible"]
  /\ frameCount = 0
  /\ detectedAt = {}
  /\ lastDetectionResult = LastDetectionResult0
  /\ removalAlert = "none"
  /\ chartLabels = <<>>
  /\ chartData = <<>>
  /\ predictions = <<>>
  /\ runs = <<>>
  /\ confidenceRun = {}
  /\ \E r \in {16, 36} : \E f \in RandomValues(r) :
       rand = [radix |-> r, frac |-> f]
  /\ minted = None
  /\ verdict = "none"

sessionVars == <<pc, loads, listeners, localStream, streams, peer, peers,
                 calls, status, joinScreen, meetingRoom, idDisplay, remoteSrc,
                 url, inputValue, errors, isModelReady>>

\* host.html: const meetingId = generateMeetingId()
MintMeetingId ==
  /\ verdict = "none"
  /\ rand.radix = 16
  /\ minted' = generateMeetingId(rand.frac)
  /\ verdict' = "minted"
  /\ UNCHANGED <<rand, sessionVars, ctlVars, detVars>>

\* handleHostSession with no id in the page address: the inline generator
MintHostId ==
  /\ verdict = "none"
  /\ rand.radix = 36
  /\ minted' = InlineHostId(rand.frac)
  /\ verdict' = "minted"
  /\ UNCHANGED <<rand, sessionVars, ctlVars, detVars>>

\* joinMeeting(id) up to its format check, on the identifier minted
JoinMeetingCheck ==
  /\ verdict = "minted"
  /\ verdict' = IF FormatAccepts(minted) THEN "accepted" ELSE "rejected"
  /\ UNCHANGED <<rand, minted, sessionVars, ctlVars, detVars>>

NextIds == MintMeetingId \/ MintHostId \/ JoinMeetingCheck

SpecIds == InitIds /\ [][NextIds]_vars

\* the identifiers tried against a stored host id: none, the stored one, its
\* lower-case form, a prefix and an extension of it, and another 8-character
\* code
JoinCandidates(stored) ==
  {<<>>, stored, ToLowerCase(stored), Substring(stored, 0, 7),
   stored \o <<"0">>, <<"0", "0", "0", "0", "A", "B", "C", "D">>}

\* joinMeeting that admits every well-formed id once a host id is stored
joinMeetingAnyStored(id) ==
  /\ joinScreen = "block"
  /\ IF ~FormatAccepts(id)
     THEN UNCHANGED <<joinScreen, meetingRoom, idDisplay>>
     ELSE IF minted # None
          THEN /\ joinScreen' = "none"
               /\ meetingRoom' = "block"
               /\ idDisplay' = [idDisplay EXCEPT !["P"] = id]
          ELSE UNCHANGED <<joinScreen, meetingRoom, idDisplay>>
  /\ UNCHANGED <<pc, loads, listeners, localStream, streams, peer, peers,
                 calls, status, remoteSrc, url, inputValue, errors,
                 isModelReady, ctlVars, idVars, detVars>>

\* joinMeeting(id) of the page without a relay: the format check, then the
\* comparison with the id host.html stored in session storage (minted; none
\* when host.html has not run in the session)
joinMeeting(id) ==
  /\ joinScreen = "block"
  /\ IF ~FormatAccepts(id)
     THEN UNCHANGED <<joinScreen, meetingRoom, idDisplay>>
     ELSE IF minted # None /\ id = minted
          THEN /\ joinScreen' = "none"
               /\ meetingRoom' = "block"
               /\ idDisplay' = [idDisplay EXCEPT !["P"] = id]
          ELSE UNCHANGED <<joinScreen, meetingRoom, idDisplay>>
  /\ UNCHANGED <<pc, loads, listeners, localStream, streams, peer, peers,
                 calls, status, remoteSrc, url, inputValue, errors,
                 isModelReady, ctlVars, idVars, detVars>>

NextJoin ==
  \/ MintMeetingId
  \/ \E id \in JoinCandidates(minted) : joinMeeting(id)

SpecJoin == InitIds /\ [][NextJoin]_vars

\* -------------------------------------------------------------- control plane
\* localStream.getAudioTracks().forEach(track => { flag = !flag;
\* track.enabled = flag }): the tracks of the kind, in order, from position i
\* ToggleEach that walks every track of the stream, whatever its kind
RECURSIVE ToggleEachAnyKind(_, _, _, _)
ToggleEachAnyKind(tracks, kind, flag, i) ==
  IF i > Len(tracks) THEN [tracks |-> tracks, flag |-> flag]
  ELSE ToggleEachAnyKind([tracks EXCEPT ![i].enabled = ~flag], kind, ~flag,
                         i + 1)

RECURSIVE ToggleEach(_, _, _, _)
ToggleEach(tracks, kind, flag, i) ==
  IF i > Len(tracks) THEN [tracks |-> tracks, flag |-> flag]
  ELSE IF tracks[i].kind = kind
       THEN ToggleEach([tracks EXCEPT ![i].enabled = ~flag], kind, ~flag, i + 1)
       ELSE ToggleEach(tracks, kind, flag, i + 1)

\* toggleMute without the early return on a missing stream
toggleMuteUnguarded(pg) ==
  /\ "controls" \in listeners[pg]
  /\ isAudioEnabled' = [isAudioEnabled EXCEPT ![pg] = ~@]
  /\ muteButton' = [muteButton EXCEPT ![pg] =
       [label |-> IF ~isAudioEnabled[pg] THEN "Mute" ELSE "Unmute",
        active |-> isAudioEnabled[pg]]]
  /\ UNCHANGED <<pc, loads, listeners, localStream, streams, peer, peers,
                 calls, status, joinScreen, meetingRoom, idDisplay, remoteSrc,
                 url, inputValue, errors, isModelReady, isVideoEnabled,
                 videoButton, previewVisibility, idVars, detVars>>

\* toggleMute(): the mute button
toggleMute(pg) ==
  /\ "controls" \in listeners[pg]
  /\ IF localStream[pg] = None
     THEN UNCHANGED <<streams, isAudioEnabled, muteButton>>
     ELSE LET r == ToggleEach(streams[localStream[pg]], "audio",
                              isAudioEnabled[pg], 1)
          IN /\ streams' = [streams EXCEPT ![localStream[pg]] = r.tracks]
             /\ isAudioEnabled' = [isAudioEnabled EXCEPT ![pg] = r.flag]
             /\ muteButton' = [muteButton EXCEPT ![pg] =
                  [label |-> IF r.flag THEN "Mute" ELSE "Unmute",
                   active |-> ~r.flag]]
  /\ UNCHANGED <<pc, loads, listeners, localStream, peer, peers, calls,
                 status, joinScreen, meetingRoom, idDisplay, remoteSrc, url,
                 inputValue, errors, isModelReady, isVideoEnabled,
                 videoButton, previewVisibility, idVars, detVars>>

\* toggleVideo that stops the video tracks it turns off
toggleVideoStops(pg) ==
  /\ "controls" \in listeners[pg]
  /\ localStream[pg] # None
  /\ LET r == ToggleEach(streams[localStream[pg]], "video",
                         isVideoEnabled[pg], 1)
     IN /\ streams' = [streams EXCEPT ![localStream[pg]] =
             [i \in DOMAIN r.tracks |->
                [r.tracks[i] EXCEPT !.live = @ /\ r.tracks[i].enabled]]]
        /\ isVideoEnabled' = [isVideoEnabled EXCEPT ![pg] = r.flag]
        /\ videoButton' = [videoButton EXCEPT ![pg] =
             [label |-> IF r.flag THEN "Video Off" ELSE "Video On",
              active |-> ~r.flag]]
        /\ previewVisibility' = [previewVisibility EXCEPT ![pg] =
             IF r.flag THEN "visible" ELSE "hidden"]
  /\ UNCHANGED <<pc, loads, listeners, localStream, peer, peers, calls,
                 status, joinScreen, meetingRoom, idDisplay, remoteSrc, url,
                 inputValue, errors, isModelReady, isAudioEnabled,
                 muteButton, idVars, detVars>>

\* toggleVideo(): the video button; the host's canvas or the participant's
\* local preview follows the flag
toggleVideo(pg) ==
  /\ "controls" \in listeners[pg]
  /\ IF localStream[pg] = None
     THEN UNCHANGED <<streams, isVideoEnabled, videoButton, previewVisibility>>
     ELSE LET r == ToggleEach(streams[localStream[pg]], "video",
                              isVideoEnabled[pg], 1)
          IN /\ streams' = [streams EXCEPT ![localStream[pg]] = r.tracks]
             /\ isVideoEnabled' = [isVideoEnabled EXCEPT ![pg] = r.flag]
             /\ videoButton' = [videoButton EXCEPT ![pg] =
                  [label |-> IF r.flag THEN "Video Off" ELSE "Video On",
                   active |-> ~r.flag]]
             /\ previewVisibility' = [previewVisibility EXCEPT ![pg] =
                  IF r.flag THEN "visible" ELSE "hidden"]
  /\ UNCHANGED <<pc, loads, listeners, localStream, peer, peers, calls,
                 status, joinScreen, meetingRoom, idDisplay, remoteSrc, url,
                 inputValue, errors, isModelReady, isAudioEnabled,
                 muteButton, idVars, detVars>>

\* the objects a page holds after init(): x when the step that makes it ran
Only(b, x) == IF b THEN {x} ELSE {}

\* both pages after init() has run: each either with a captured stream of
\* any shape or with capture failed. The host with a stream has registered
\* its Peer; the participant page was opened without an id and waits on the
\* join screen, or (inCall) was opened from the host's link and the two
\* pages are connected
InitCtl ==
  /\ pc = [pg \in Pages |-> "ready"]
  /\ loads = 1
  /\ \E hCap, pCap, inCall \in BOOLEAN : \E hA, hV, pA, pV \in 0..MaxTracks :
       /\ inCall => hCap /\ pCap
       /\ listeners = [H |-> {"controls"},
                       P |-> IF pCap THEN {"join", "controls"}
                             ELSE {"controls"}]
       /\ localStream = [H |-> IF hCap THEN <<"H", 1>> ELSE None,
                         P |-> IF pCap THEN <<"P", 1>> ELSE None]
       /\ streams = [s \in Only(hCap, <<"H", 1>>) \cup Only(pCap, <<"P", 1>>)
                     |-> IF s[1] = "H" THEN MkStream(hA, hV)
                         ELSE MkStream(pA, pV)]
       /\ peer = [H |-> IF hCap THEN <<"H", 1>> ELSE None,
                  P |-> IF inCall THEN <<"P", 1>> ELSE None]
       /\ peers = [p \in Only(hCap, <<"H", 1>>) \cup Only(inCall, <<"P", 1>>)
                   |-> IF p[1] = "H"
                       THEN [id |-> HostId, target |-> None,
                             opened |-> inCall, destroyed |-> FALSE]
                       ELSE [id |-> None, target |-> HostId,
                             opened |-> TRUE, destroyed |-> FALSE]]
       /\ calls = [c \in Only(inCall, <<"P", 1>>) |->
                     [via |-> <<"P", 1>>, to |-> HostId,
                      outStream |-> <<"P", 1>>, hostPeer |-> <<"H", 1>>,
                      answered |-> TRUE, ansStream |-> <<"H", 1>>]]
       /\ status = [H |-> IF inCall THEN "ParticipantJoined"
                          ELSE IF hCap THEN "ModelsReady" ELSE "WebcamError",
                    P |-> IF inCall THEN "JoinedHost"
                          ELSE IF pCap THEN "Requesting" ELSE "WebcamError"]
       /\ isModelReady = hCap
       /\ joinScreen = IF inCall THEN "none" ELSE "block"
       /\ meetingRoom = IF inCall THEN "flex" ELSE "none"
       /\ idDisplay = [H |-> IF inCall THEN HostId ELSE None,
                       P |-> IF inCall THEN HostId ELSE None]
       /\ remoteSrc = [H |-> IF inCall THEN <<"P", 1>> ELSE None,
                       P |-> IF inCall THEN <<"H", 1>> ELSE None]
       /\ url = [H |-> IF inCall THEN HostId ELSE None,
                 P |-> IF inCall THEN HostId ELSE None]
       /\ inputValue = IF inCall THEN HostId ELSE None
  /\ errors = [pg \in Pages |-> {}]
  /\ isAudioEnabled = [pg \in Pages |-> TRUE]
  /\ isVideoEnabled = [pg \in Pages |-> TRUE]
  /\ muteButton = [pg \in Pages |-> MuteButton0]
  /\ videoButton = [pg \in Pages |-> VideoButton0]
  /\ previewVisibility = [pg \in Pages |-> "visible"]
  /\ frameCount = 0
  /\ detectedAt = {}
  /\ lastDetectionResult = LastDetectionResult0
  /\ removalAlert = "none"
  /\ chartLabels = <<>>
  /\ chartData = <<>>
  /\ predictions = <<>>
  /\ runs = <<>>
  /\ confidenceRun = {}
  /\ rand = None
  /\ minted = None
  /\ verdict = "none"

NextCtl ==
  \/ \E pg \in Pages : toggleMute(pg)
  \/ \E pg \in Pages : toggleVideo(pg)
  \/ \E pg \in Pages : endCall(pg)

SpecCtl == InitCtl /\ [][NextCtl]_vars

\* ------------------------------------------------------- host detection loop
\* const INFERENCE_SKIP_RATE = 10
INFERENCE_SKIP_RATE == 10

\* const ANOMALY_WARNING_LEVEL = 0.65, in hundredths like every confidence
ANOMALY_WARNING_LEVEL == 65

\* const maxDataPoints = 30
maxDataPoints == 30

\* what one detection finds: nothing (isFake false, confidence 0.0), or a
\* fake with its confidence. The stub draws 0.75 + Math.random() * 0.2; the
\* classifier variant reports a probability from its threshold 0.40 upwards.
DetectionOutcomes ==
  {[isFake |-> FALSE, confidence |-> 0]} \cup
  {[isFake |-> TRUE, confidence |-> c] : c \in {40, 64, 65, 66, 75, 94}}

\* updateVisuals whose banner, once shown, stays
updateVisualsLatched(isFake, confidence) ==
  /\ LET labels == Append(chartLabels, frameCount)
         data == Append(chartData, confidence)
     IN IF Len(labels) > maxDataPoints
        THEN chartLabels' = Tail(labels) /\ chartData' = Tail(data)
        ELSE chartLabels' = labels /\ chartData' = data
  /\ removalAlert' = IF confidence >= ANOMALY_WARNING_LEVEL
                        \/ removalAlert = "block"
                     THEN "block" ELSE "none"

\* updateVisuals whose shift drops the oldest label and keeps its value
updateVisualsShiftsLabels(isFake, confidence) ==
  /\ LET labels == Append(chartLabels, frameCount)
         data == Append(chartData, confidence)
     IN IF Len(labels) > maxDataPoints
        THEN chartLabels' = Tail(labels) /\ chartData' = data
        ELSE chartLabels' = labels /\ chartData' = data
  /\ removalAlert' = IF confidence >= ANOMALY_WARNING_LEVEL
                     THEN "block" ELSE "none"

\* updateVisuals(isFake, confidence): the point pushed on the confidence
\* chart (confidence * 100 is the confidence in hundredths), the shift of
\* the oldest point, and the removal banner
updateVisuals(isFake, confidence) ==
  /\ LET labels == Append(chartLabels, frameCount)
         data == Append(chartData, confidence)
     IN IF Len(labels) > maxDataPoints
        THEN chartLabels' = Tail(labels) /\ chartData' = Tail(data)
        ELSE chartLabels' = labels /\ chartData' = data
  /\ removalAlert' = IF confidence >= ANOMALY_WARNING_LEVEL
                     THEN "block" ELSE "none"

\* detectDeepfakeArtifacts() on the host page, finding o; detectedAt records
\* the invocation
detectDeepfakeArtifacts(o) ==
  /\ detectedAt' = detectedAt \cup {frameCount}
  /\ UNCHANGED runVars
  /\ IF ~isModelReady
     THEN UNCHANGED <<lastDetectionResult, removalAlert, chartVars, status>>
     ELSE LET currentConfidence == IF o.isFake THEN o.confidence ELSE 0
          IN /\ lastDetectionResult' = o
             /\ updateVisuals(o.isFake, currentConfidence)
             /\ status' = [status EXCEPT !["H"] =
                             IF o.isFake THEN "DeepfakeAlert"
                             ELSE "StatusReal"]

\* displayFrame that starts a detection on every tick
displayFrameEveryTick(o) ==
  /\ pc["H"] \in {"ready", "reloading"}
  /\ frameCount < MaxFrames
  /\ IF localStream["H"] = None
     THEN UNCHANGED <<detVars, status>>
     ELSE /\ IF isModelReady
             THEN detectDeepfakeArtifacts(o)
             ELSE UNCHANGED <<detectedAt, lastDetectionResult, removalAlert,
                              chartVars, runVars, status>>
          /\ frameCount' = frameCount + 1
  /\ UNCHANGED <<pc, loads, listeners, localStream, streams, peer, peers,
                 calls, joinScreen, meetingRoom, idDisplay, remoteSrc, url,
                 inputValue, errors, isModelReady, ctlVars, idVars>>

\* displayFrame() on the host page: one display tick, from the call that ends
\* init() until the reload takes the script away
displayFrame(o) ==
  /\ pc["H"] \in {"ready", "reloading"}
  /\ frameCount < MaxFrames
  /\ IF localStream["H"] = None
     THEN UNCHANGED <<detVars, status>>
     ELSE /\ IF isModelReady /\ frameCount % INFERENCE_SKIP_RATE = 0
             THEN detectDeepfakeArtifacts(o)
             ELSE UNCHANGED <<detectedAt, lastDetectionResult, removalAlert,
                              chartVars, runVars, status>>
          /\ frameCount' = frameCount + 1
  /\ UNCHANGED <<pc, loads, listeners, localStream, streams, peer, peers,
                 calls, joinScreen, meetingRoom, idDisplay, remoteSrc, url,
                 inputValue, errors, isModelReady, ctlVars, idVars>>

\* the host page as init() leaves it: captured or not, models ready or not,
\* the Peer of handleHostSession() made and not yet open
InitDet ==
  /\ pc = [H |-> "ready", P |-> "gum"]
  /\ loads = 1
  /\ listeners = [H |-> {"controls"}, P |-> {}]
  /\ \E hCap, ready \in BOOLEAN :
       /\ ready => hCap
       /\ localStream = [H |-> IF hCap THEN <<"H", 1>> ELSE None, P |-> None]
       /\ streams = [s \in Only(hCap, <<"H", 1>>) |-> MkStream(1, 1)]
       /\ peer = [H |-> IF hCap THEN <<"H", 1>> ELSE None, P |-> None]
       /\ peers = [p \in Only(hCap, <<"H", 1>>) |->
                     [id |-> HostId, target |-> None,
                      opened |-> FALSE, destroyed |-> FALSE]]
       /\ status = [H |-> IF ~hCap THEN "WebcamError"
                          ELSE IF ready THEN "ModelsReady" ELSE "LibsMissing",
                    P |-> "Requesting"]
       /\ isModelReady = ready
  /\ calls = <<>>
  /\ joinScreen = "block"
  /\ meetingRoom = "none"
  /\ idDisplay = [pg \in Pages |-> None]
  /\ remoteSrc = [pg \in Pages |-> None]
  /\ url = [pg \in Pages |-> None]
  /\ inputValue = None
  /\ errors = [pg \in Pages |-> {}]
  /\ isAudioEnabled = [pg \in Pages |-> TRUE]
  /\ isVideoEnabled = [pg \in Pages |-> TRUE]
  /\ muteButton = [pg \in Pages |-> MuteButton0]
  /\ videoButton = [pg \in Pages |-> VideoButton0]
  /\ previewVisibility = [pg \in Pages |-> "visible"]
  /\ frameCount = 0
  /\ detectedAt = {}
  /\ lastDetectionResult = LastDetectionResult0
  /\ removalAlert = "none"
  /\ chartLabels = <<>>
  /\ chartData = <<>>
  /\ predictions = <<>>
  /\ runs = <<>>
  /\ confidenceRun = {}
  /\ rand = None
  /\ minted = None
  /\ verdict = "none"

\* init() makes the first displayFrame() call itself, so relay events and
\* clicks are handled after the first tick (a tick without a stream does
\* nothing)
FirstTickDone == frameCount > 0 \/ localStream["H"] = None

NextDet ==
  \/ \E o \in DetectionOutcomes : displayFrame(o)
  \/ FirstTickDone /\ \E p \in DOMAIN peers : HostOpen(p)
  \/ FirstTickDone /\ endCall("H")

SpecDet == InitDet /\ [][NextDet]_vars

\* ------------------------------------------------------- the confidence chart
\* the host page after n detections of clean frames, n close to the chart's
\* capacity: one point per detection, labelled with the frameCount of its
\* tick, and the next detecting tick due
InitChart ==
  /\ pc = [H |-> "ready", P |-> "gum"]
  /\ loads = 1
  /\ listeners = [H |-> {"controls"}, P |-> {}]
  /\ localStream = [H |-> <<"H", 1>>, P |-> None]
  /\ streams = (<<"H", 1>> :> MkStream(1, 1))
  /\ peer = [H |-> <<"H", 1>>, P |-> None]
  /\ peers = (<<"H", 1>> :> [id |-> HostId, target |-> None,
                             opened |-> FALSE, destroyed |-> FALSE])
  /\ status = [H |-> "StatusReal", P |-> "Requesting"]
  /\ isModelReady = TRUE
  /\ calls = <<>>
  /\ joinScreen = "block"
  /\ meetingRoom = "none"
  /\ idDisplay = [pg \in Pages |-> None]
  /\ remoteSrc = [pg \in Pages |-> None]
  /\ url = [pg \in Pages |-> None]
  /\ inputValue = None
  /\ errors = [pg \in Pages |-> {}]
  /\ isAudioEnabled = [pg \in Pages |-> TRUE]
  /\ isVideoEnabled = [pg \in Pages |-> TRUE]
  /\ muteButton = [pg \in Pages |-> MuteButton0]
  /\ videoButton = [pg \in Pages |-> VideoButton0]
  /\ previewVisibility = [pg \in Pages |-> "visible"]
  /\ \E n \in (maxDataPoints - 2)..maxDataPoints :
       /\ frameCount = INFERENCE_SKIP_RATE * n
       /\ detectedAt = {INFERENCE_SKIP_RATE * (i - 1) : i \in 1..n}
       /\ chartLabels = [i \in 1..n |-> INFERENCE_SKIP_RATE * (i - 1)]
       /\ chartData = [i \in 1..n |-> 0]
  /\ lastDetectionResult = LastDetectionResult0
  /\ removalAlert = "none"
  /\ predictions = <<>>
  /\ runs = <<>>
  /\ confidenceRun = {}
  /\ rand = None
  /\ minted = None
  /\ verdict = "none"

\* a detecting display tick finding o, together with the ticks up to the
\* next detecting one, which change frameCount only
DetectingTicks(o) ==
  /\ localStream["H"] # None
  /\ isModelReady
  /\ frameCount % INFERENCE_SKIP_RATE = 0
  /\ frameCount < INFERENCE_SKIP_RATE * (maxDataPoints + MaxCalls)
  /\ detectDeepfakeArtifacts(o)
  /\ frameCount' = frameCount + INFERENCE_SKIP_RATE
  /\ UNCHANGED <<pc, loads, listeners, localStream, streams, peer, peers,
                 calls, joinScreen, meetingRoom, idDisplay, remoteSrc, url,
                 inputValue, errors, isModelReady, ctlVars, idVars>>

NextChart == \E o \in DetectionOutcomes : DetectingTicks(o)

SpecChart == InitChart /\ [][NextChart]_vars

\* ------------------------------------- detection runs of the classifier variant
\* const ANOMALY_THRESHOLD = 0.40
ANOMALY_THRESHOLD == 40

\* what anomalyModel.classify reports of one face: whether the top class is
\* one of ANOMALY_CLASSES, and its probability
Classifications ==
  {[anomalyMatch |-> TRUE, probability |-> 50],
   [anomalyMatch |-> TRUE, probability |-> 30],
   [anomalyMatch |-> FALSE, probability |-> 90]}

\* the entry pushed on lastDetectionResult.predictions for a classification
PredictionOf(c) ==
  [isFake |-> c.anomalyMatch /\ c.probability >= ANOMALY_THRESHOLD,
   probability |-> c.probability]

\* the runs suspended at an await
InFlight == {r \in DOMAIN runs : runs[r].at # "done"}

\* detectDeepfakeArtifacts() of the classifier variant, from its call to its
\* first await; the run is named by the frameCount of the tick that made it
detectDeepfakeArtifactsHeavy ==
  /\ detectedAt' = detectedAt \cup {frameCount}
  /\ runs' = IF isModelReady
             THEN runs @@ (frameCount :> [at |-> "estimateFaces", faces |-> 0])
             ELSE runs
  /\ UNCHANGED <<lastDetectionResult, removalAlert, chartVars, predictions,
                 confidenceRun, status>>

\* displayFrame() of the classifier variant: one display tick
displayFrameHeavy ==
  /\ pc["H"] \in {"ready", "reloading"}
  /\ frameCount < MaxFrames
  /\ IF localStream["H"] = None
     THEN UNCHANGED <<detVars, status>>
     ELSE /\ IF isModelReady /\ frameCount % INFERENCE_SKIP_RATE = 0
             THEN detectDeepfakeArtifactsHeavy
             ELSE UNCHANGED <<detectedAt, lastDetectionResult, removalAlert,
                              chartVars, runVars, status>>
          /\ frameCount' = frameCount + 1
  /\ UNCHANGED <<pc, loads, listeners, localStream, streams, peer, peers,
                 calls, joinScreen, meetingRoom, idDisplay, remoteSrc, url,
                 inputValue, errors, isModelReady, ctlVars, idVars>>

\* the end of the try block and what follows it, with preds the predictions
\* list at that point: isFake, confidence, updateVisuals, the status line
FinishRun(r, preds) ==
  LET fake == \E i \in DOMAIN preds : preds[i].isFake
      confidence == IF fake THEN preds[1].probability ELSE 0
  IN /\ lastDetectionResult' = [isFake |-> fake, confidence |-> confidence]
     /\ confidenceRun' = {r}
     /\ updateVisuals(fake, IF fake THEN confidence ELSE 0)
     /\ status' = [status EXCEPT !["H"] =
                     IF fake THEN "DeepfakeAlert" ELSE "StatusReal"]
     /\ runs' = [runs EXCEPT ![r] = [at |-> "done", faces |-> 0]]

\* await faceDetector.estimateFaces(...) of run r resolves with n faces
EstimateFacesResolve(r, n) ==
  /\ pc["H"] \in {"ready", "reloading"}
  /\ r \in DOMAIN runs
  /\ runs[r].at = "estimateFaces"
  /\ predictions' = <<>>
  /\ IF n = 0
     THEN FinishRun(r, <<>>)
     ELSE /\ runs' = [runs EXCEPT ![r] = [at |-> "classify", faces |-> n]]
          /\ UNCHANGED <<lastDetectionResult, removalAlert, chartVars,
                         confidenceRun, status>>
  /\ UNCHANGED <<pc, loads, listeners, localStream, streams, peer, peers,
                 calls, joinScreen, meetingRoom, idDisplay, remoteSrc, url,
                 inputValue, errors, isModelReady, ctlVars, idVars,
                 frameCount, detectedAt>>

\* await anomalyModel.classify(...) of run r resolves with c; the loop goes
\* on to the next face or ends
ClassifyResolve(r, c) ==
  /\ pc["H"] \in {"ready", "reloading"}
  /\ r \in DOMAIN runs
  /\ runs[r].at = "classify"
  /\ LET preds == Append(predictions, PredictionOf(c))
     IN /\ predictions' = preds
        /\ IF runs[r].faces = 1
           THEN FinishRun(r, preds)
           ELSE /\ runs' = [runs EXCEPT ![r].faces = @ - 1]
                /\ UNCHANGED <<lastDetectionResult, removalAlert, chartVars,
                               confidenceRun, status>>
  /\ UNCHANGED <<pc, loads, listeners, localStream, streams, peer, peers,
                 calls, joinScreen, meetingRoom, idDisplay, remoteSrc, url,
                 inputValue, errors, isModelReady, ctlVars, idVars,
                 frameCount, detectedAt>>

\* the await run r is suspended at rejects: the catch block, then
\* updateVisuals and the status line
DetectionThrows(r) ==
  /\ pc["H"] \in {"ready", "reloading"}
  /\ r \in InFlight
  /\ lastDetectionResult' = [lastDetectionResult EXCEPT !.isFake = TRUE]
  /\ predictions' = <<>>
  /\ updateVisuals(TRUE, lastDetectionResult.confidence)
  /\ status' = [status EXCEPT !["H"] = "DeepfakeAlert"]
  /\ runs' = [runs EXCEPT ![r] = [at |-> "done", faces |-> 0]]
  /\ UNCHANGED <<pc, loads, listeners, localStream, streams, peer, peers,
                 calls, joinScreen, meetingRoom, idDisplay, remoteSrc, url,
                 inputValue, errors, isModelReady, ctlVars, idVars,
                 frameCount, detectedAt, confidenceRun>>

NextRun ==
  \/ displayFrameHeavy
  \/ \E r \in DOMAIN runs : \E n \in 0..MaxFaces : EstimateFacesResolve(r, n)
  \/ \E r \in DOMAIN runs : \E c \in Classifications : ClassifyResolve(r, c)
  \/ \E r \in DOMAIN runs : DetectionThrows(r)

SpecRun == InitDet /\ [][NextRun]_vars

\* ---------------------------------------------------- the host page's init()
\* the host page alone, with both outcomes of the library test of
\* loadModels; the metadata event of an attached stream arrives and the
\* model loads settle one way or the other
NextHostInit ==
  \/ GumResolve("H")
  \/ GumReject("H")
  \/ \E libs \in BOOLEAN : HostMetaLoaded(libs)
  \/ ModelsLoaded
  \/ ModelsReject
  \/ \E p \in DOMAIN peers : HostOpen(p)
  \/ \E p \in DOMAIN peers : PeerError(p)
  \/ toggleMute("H")
  \/ toggleVideo("H")
  \/ endCall("H")
  \/ Reload

SpecHostInit ==
  /\ Init
  /\ [][NextHostInit]_vars
  /\ WF_vars(\E libs \in BOOLEAN : HostMetaLoaded(libs))
  /\ WF_vars(ModelsLoaded \/ ModelsReject)


\* ===================================================================== claims
\* C1: an endpoint shows its connected status ('Joined Host Session' on the
\* participant, 'Participant Joined!' on the host) only when a Peer of its
\* own has had its 'open' event and a 'stream' event has attached the remote
\* media; the 'open' event alone never shows it.
ConnectedOnlyAfterOpenAndStream ==
  /\ status["P"] = "JoinedHost" =>
       /\ remoteSrc["P"] # None
       /\ \E c \in DOMAIN calls : peers[c].opened /\ calls[c].answered
  /\ status["H"] = "ParticipantJoined" =>
       /\ remoteSrc["H"] # None
       /\ \E p \in PeersOf("H") : HandlersAlive(p) /\ peers[p].opened

\* C1 witness: both endpoints show the connected status
BothShowConnected ==
  /\ status["P"] = "JoinedHost"
  /\ status["H"] = "ParticipantJoined"
  /\ remoteSrc["P"] = <<"H", 1>>
  /\ remoteSrc["H"] = <<"P", 1>>

\* C2: call.answer runs at most once per host session: no Peer of the host
\* has answered two calls.
OneAnswerPerSession ==
  \A p \in PeersOf("H") :
    Cardinality({c \in DOMAIN calls :
                   calls[c].answered /\ calls[c].hostPeer = p}) <= 1

\* C3: endCall in a session in progress (the page holds a Peer) leaves that
\* Peer destroyed and the peer variable cleared, no local stream and no live
\* track on any stream the page captured, and the status 'Call Ended'.
HangUpReleasesAll ==
  [][\A pg \in Pages :
       (endCall(pg) /\ peer[pg] # None) =>
         /\ peer'[pg] = None
         /\ peers'[peer[pg]].destroyed
         /\ localStream'[pg] = None
         /\ \A s \in StreamsOf(pg) :
              \A i \in DOMAIN streams'[s] : ~streams'[s][i].live
         /\ status'[pg] = "CallEnded"]_vars

\* C3 witness: the participant has hung up a connected session and the host
\* has hung up too
HungUpAfterConnected ==
  /\ status["P"] = "CallEnded"
  /\ peer["P"] = None
  /\ remoteSrc["P"] # None
  /\ \E p \in PeersOf("P") : peers[p].destroyed /\ peers[p].opened
  /\ status["H"] = "CallEnded"
  /\ \E p \in PeersOf("H") : peers[p].destroyed

\* C4: a 'stream' event of a dial attempt that is not the current one (the
\* global peer is another Peer, or cleared) changes neither the status nor
\* the remote video source.
StaleStreamChangesNothing ==
  [][\A c \in DOMAIN calls :
       (PartStream(c) /\ peer["P"] # c) => UNCHANGED <<status, remoteSrc>>]_vars

\* C5: once the host has hung up a session it had registered, a 'call' event
\* for the identifier of that session is not answered and changes neither
\* the status nor a video source.
LateCallNotAnswered ==
  [][\A c \in DOMAIN calls : \A p \in PeersOf("H") :
       (/\ HostCall(c, p)
        /\ \E q \in PeersOf("H") :
             /\ peers[q].opened /\ peers[q].destroyed
             /\ peers[q].id = calls[c].to)
       => UNCHANGED <<calls, status, remoteSrc>>]_vars

\* C6: the 'open' event of a participant Peer that endCall has destroyed is
\* discarded: no call, no exception, no status or screen change.
LateOpenDiscarded ==
  [][\A p \in PeersOf("P") :
       (PartOpen(p) /\ peers[p].destroyed) =>
         UNCHANGED <<calls, errors, status, joinScreen, meetingRoom>>]_vars

\* the output format of the host's generator: its length, alphanumeric
WellFormed(id) ==
  /\ Len(id) = Len(HostId)
  /\ \A i \in DOMAIN id : id[i] \in AlnumChars

\* C7: no Peer is ever created for a malformed identifier, and the join
\* screen stays shown while the identifier displayed is malformed.
MalformedNeverDialled ==
  /\ \A p \in PeersOf("P") : WellFormed(peers[p].target)
  /\ (idDisplay["P"] # None /\ ~WellFormed(idDisplay["P"]))
       => joinScreen = "block"

\* C8: the identifier generateMeetingId returns passes the format check of
\* joinMeeting, for every value of the random source.
GeneratedIdAccepted ==
  (rand # None /\ rand.radix = 16) => verdict # "rejected"

\* C9: every identifier minted has the one length of its generator (8 for
\* generateMeetingId, 7 for the inline generator) and only alphanumeric
\* characters.
MintedIdFixedLength ==
  verdict # "none" =>
    /\ Len(minted) = IF rand.radix = 16 THEN 8 ELSE 7
    /\ \A i \in DOMAIN minted : minted[i] \in AlnumChars

AudioOf(tracks) == {i \in DOMAIN tracks : tracks[i].kind = "audio"}

\* C10: on a local stream with any number of audio tracks, one toggleMute
\* flips the enabled flag of every audio track, and a second one returns
\* every flag to its value before the first.
MuteTwiceRestores ==
  [][\A pg \in Pages :
       (toggleMute(pg) /\ localStream[pg] # None) =>
         LET t0 == streams[localStream[pg]]
             t1 == streams'[localStream[pg]]
             r2 == ToggleEach(t1, "audio", isAudioEnabled'[pg], 1)
         IN \A i \in AudioOf(t0) :
              /\ t1[i].enabled = ~t0[i].enabled
              /\ r2.tracks[i].enabled = t0[i].enabled]_vars

VideoOf(tracks) == {i \in DOMAIN tracks : tracks[i].kind = "video"}

\* C11: the camera toggle and the mute are independent: a toggleVideo step
\* changes no audio track's enabled flag, nor isAudioEnabled and the mute
\* button; a toggleMute step changes no video track's enabled flag, nor
\* isVideoEnabled, the video button and the preview.
TogglesIndependent ==
  [][\A pg \in Pages :
       /\ toggleVideo(pg) =>
            /\ isAudioEnabled' = isAudioEnabled
            /\ muteButton' = muteButton
            /\ \A s \in DOMAIN streams : \A i \in AudioOf(streams[s]) :
                 streams'[s][i].enabled = streams[s][i].enabled
       /\ toggleMute(pg) =>
            /\ isVideoEnabled' = isVideoEnabled
            /\ videoButton' = videoButton
            /\ previewVisibility' = previewVisibility
            /\ \A s \in DOMAIN streams : \A i \in VideoOf(streams[s]) :
                 streams'[s][i].enabled = streams[s][i].enabled]_vars

\* C11 witness: on one page the mute has acted and the camera is as it
\* was, on the other the camera toggle has acted and the audio is as it was
MutedWithCameraOn ==
  /\ localStream["H"] # None /\ localStream["P"] # None
  /\ LET h == streams[localStream["H"]]
         q == streams[localStream["P"]]
     IN /\ muteButton["H"].active /\ ~isAudioEnabled["H"]
        /\ \E i \in AudioOf(h) : ~h[i].enabled
        /\ \E i \in VideoOf(h) : h[i].enabled
        /\ isVideoEnabled["H"] /\ previewVisibility["H"] = "visible"
        /\ videoButton["P"].active /\ ~isVideoEnabled["P"]
        /\ \E i \in VideoOf(q) : ~q[i].enabled
        /\ \E i \in AudioOf(q) : q[i].enabled
        /\ isAudioEnabled["P"] /\ ~muteButton["P"].active

\* C12: what the buttons say equals what the tracks do: while a page holds
\* a local stream, every audio track's enabled flag equals isAudioEnabled
\* and every video track's equals isVideoEnabled, and label and 'active'
\* class of each button follow its flag.
ToggleStateMatchesTracks ==
  \A pg \in Pages :
    localStream[pg] # None =>
      LET t == streams[localStream[pg]]
      IN /\ \A i \in AudioOf(t) : t[i].enabled = isAudioEnabled[pg]
         /\ \A i \in VideoOf(t) : t[i].enabled = isVideoEnabled[pg]
         /\ muteButton[pg].active = ~isAudioEnabled[pg]
         /\ (muteButton[pg].label = "Mute") = isAudioEnabled[pg]
         /\ videoButton[pg].active = ~isVideoEnabled[pg]
         /\ (videoButton[pg].label = "Video Off") = isVideoEnabled[pg]

\* C13: a toggleMute or toggleVideo step on a page that holds no local
\* stream changes neither flag, neither button and not the preview.
NoStreamToggleIsNoOp ==
  [][\A pg \in Pages :
       ((toggleMute(pg) \/ toggleVideo(pg)) /\ localStream[pg] = None) =>
         UNCHANGED <<ctlVars, streams>>]_vars

\* C13 witness: the controls are wired on a page whose capture failed, and
\* on a page that was muted and then hung up
ControlsWiredWithoutStream ==
  /\ \E pg \in Pages :
       /\ localStream[pg] = None /\ "controls" \in listeners[pg]
       /\ status[pg] = "WebcamError"
  /\ \E pg \in Pages :
       /\ localStream[pg] = None /\ "controls" \in listeners[pg]
       /\ status[pg] = "CallEnded" /\ muteButton[pg].active

\* C14: a toggleMute or toggleVideo step stops no track, makes or destroys
\* no Peer and no call, and leaves the session state (screens, status,
\* remote video, the stream held) as it was.
TogglesLeaveConnection ==
  [][\A pg \in Pages :
       (toggleMute(pg) \/ toggleVideo(pg)) =>
         /\ UNCHANGED <<peer, peers, calls, localStream, status, joinScreen,
                        meetingRoom, remoteSrc, pc>>
         /\ DOMAIN streams' = DOMAIN streams
         /\ \A s \in DOMAIN streams :
              /\ Len(streams'[s]) = Len(streams[s])
              /\ \A i \in DOMAIN streams[s] :
                   /\ streams'[s][i].live = streams[s][i].live
                   /\ streams'[s][i].kind = streams[s][i].kind]_vars

\* C14 witness: two connected pages, the camera of one turned off and its
\* tracks live
CameraOffInCall ==
  /\ status["P"] = "JoinedHost" /\ status["H"] = "ParticipantJoined"
  /\ peer["P"] # None /\ peer["H"] # None
  /\ ~peers[peer["P"]].destroyed /\ ~peers[peer["H"]].destroyed
  /\ ~isVideoEnabled["P"] /\ previewVisibility["P"] = "hidden"
  /\ \E i \in VideoOf(streams[localStream["P"]]) :
       /\ ~streams[localStream["P"]][i].enabled
       /\ streams[localStream["P"]][i].live

\* init() of the page's current load has run and captured no stream
CaptureFailed(pg) ==
  /\ pc[pg] \in {"ready", "reloading"}
  /\ <<pg, IF isHost(pg) THEN loads ELSE 1>> \notin DOMAIN streams

\* C15: when getUserMedia rejects, the attempt ends there: the page shows
\* the webcam error (until the hang-up button writes its own status), holds
\* no stream and no Peer, has made no Peer and no call in this load, and
\* the join button has no listener.
CaptureFailureEndsAttempt ==
  \A pg \in Pages :
    CaptureFailed(pg) =>
      /\ status[pg] \in {"WebcamError", "CallEnded"}
      /\ localStream[pg] = None
      /\ peer[pg] = None
      /\ \A p \in PeersOf(pg) : isHost(pg) /\ p[2] # loads
      /\ \A c \in DOMAIN calls :
           /\ calls[c].via[1] # pg
           /\ calls[c].hostPeer # None =>
                (calls[c].hostPeer[1] = pg => calls[c].hostPeer[2] # loads)
      /\ "join" \notin listeners[pg]
      /\ pg = "P" => joinScreen = "block" /\ meetingRoom = "none"

\* C15 witness: capture failed on the participant page, and on the host
\* page in its second load
BothCapturesFailed ==
  /\ CaptureFailed("P") /\ status["P"] = "WebcamError"
  /\ CaptureFailed("H") /\ status["H"] = "WebcamError" /\ loads = 2

\* C16: every peer.call and every call.answer was handed a local stream:
\* no call was placed, and none answered, with localStream cleared.
NegotiationCarriesStream ==
  \A c \in DOMAIN calls :
    /\ calls[c].outStream # None
    /\ calls[c].answered => calls[c].ansStream # None

\* C17: no page holds two Peers at once that it has not destroyed.
OneLivePeerPerEndpoint ==
  \A pg \in Pages :
    Cardinality({p \in PeersOf(pg) : ~peers[p].destroyed}) <= 1

\* C18: the call error handler unwinds the attempt: after it the Peer that
\* connectToHost made for the failed dial is destroyed.
CallErrorUnwindsPeer ==
  [][\A c \in DOMAIN calls : CallError(c) => peers'[c].destroyed]_vars

\* C19: a call error puts the participant back on the join screen with the
\* meeting room hidden and leaves the local stream and every track as they
\* were; a live track is stopped by endCall only.
CallErrorReturnsToJoin ==
  [][/\ \A c \in DOMAIN calls :
          CallError(c) =>
            /\ joinScreen' = "block"
            /\ meetingRoom' = "none"
            /\ localStream' = localStream
            /\ streams' = streams
     /\ \A s \in DOMAIN streams : \A i \in DOMAIN streams[s] :
          (streams[s][i].live /\ ~streams'[s][i].live) =>
            \E pg \in Pages : endCall(pg)]_vars

\* C19 witness: the dial of a well-formed identifier that no open host Peer
\* is registered under has failed; the join screen is back and the
\* participant's stream is held with every track live
FailedDialKeepsStream ==
  /\ status["P"] = "CallFailed"
  /\ joinScreen = "block" /\ meetingRoom = "none"
  /\ \E c \in DOMAIN calls :
       /\ WellFormed(calls[c].to)
       /\ calls[c].hostPeer = None
       /\ ~\E q \in PeersOf("H") : peers[q].opened /\ peers[q].id = calls[c].to
  /\ localStream["P"] # None
  /\ \A i \in DOMAIN streams[localStream["P"]] :
       streams[localStream["P"]][i].live

\* the page shows the connected status of a received remote stream
ShowsConnected(pg) ==
  /\ remoteSrc[pg] # None
  /\ status[pg] = IF isHost(pg) THEN "ParticipantJoined" ELSE "JoinedHost"

\* what an error event on page pg has to leave behind
ErrorOutcome(pg) ==
  /\ status'[pg] \in {"CallFailed", "HostError", "ParticipantError"}
  /\ IF ShowsConnected(pg)
     THEN peer'[pg] = None /\ localStream'[pg] = None
     ELSE ~isHost(pg) => joinScreen' = "block" /\ meetingRoom' = "none"

\* C20: every Peer error and every call error writes an error status and,
\* on a page not yet connected, returns the participant to the join screen;
\* on a connected page it ends the session (Peer and stream released).
SignalingErrorsHandled ==
  [][/\ \A p \in DOMAIN peers : (PeerError(p) => ErrorOutcome(p[1]))
     /\ \A c \in DOMAIN calls : (CallError(c) => ErrorOutcome("P"))]_vars

\* C21: the identifier of a session the host hung up is not registered
\* again: no Peer of a later load of the host page opens under the
\* identifier of an opened Peer that endCall destroyed.
EndedIdNotRegisteredAgain ==
  \A p, q \in PeersOf("H") :
    (p[2] < q[2] /\ peers[p].opened /\ peers[p].destroyed) =>
      ~(peers[q].opened /\ peers[q].id = peers[p].id)

\* C22: no error handler retries: a Peer error or call error step makes no
\* Peer and places no call; a Peer is made only by a join click or by
\* init() of a page load, and a call only by the open handler of a Peer.
ErrorsNeverRetried ==
  [][/\ ((\E p \in DOMAIN peers : PeerError(p))
         \/ (\E c \in DOMAIN calls : CallError(c)))
        => (peers' = peers /\ peer' = peer /\ calls' = calls)
     /\ (DOMAIN peers' # DOMAIN peers)
        => ((\E v \in JoinInputs : JoinClick(v))
            \/ PartMetaLoaded
            \/ ModelsLoaded
            \/ HostMetaLoaded(FALSE))
     /\ (DOMAIN calls' # DOMAIN calls)
        => (\E p \in DOMAIN peers : PartOpen(p))]_vars

\* C22 witness: a dial failed with a call error and a Peer error was
\* reported after it; the participant still has the one Peer and the one
\* call of that dial
ErrorsReportedNoRetry ==
  /\ status["P"] = "ParticipantError"
  /\ joinScreen = "block"
  /\ Cardinality(PeersOf("P")) = 1
  /\ DOMAIN calls = PeersOf("P")

\* C23: the call of a connectToHost attempt is placed through the Peer that
\* attempt made, after that Peer opened, and a Peer carries at most the one
\* call of its own attempt.
CallOnlyThroughOwnOpenPeer ==
  \A c \in DOMAIN calls :
    /\ c \in PeersOf("P")
    /\ peers[c].opened
    /\ calls[c].via = c

\* the host's Peer is open under an identifier and the participant, holding
\* its captured stream, has dialled that identifier
DialledRegisteredHost ==
  /\ localStream["P"] # None
  /\ \E h \in PeersOf("H") : \E q \in PeersOf("P") :
       /\ peers[h].opened /\ ~peers[h].destroyed
       /\ peers[q].target = peers[h].id

DialMatchesIgnoringCase ==
  \A q \in PeersOf("P") : \A h \in PeersOf("H") :
    (peers[h].opened
     /\ ToUpperCase(peers[q].target) = ToUpperCase(peers[h].id))
      => peers[q].target = peers[h].id

\* C26: the open of the host's Peer writes its id into the page address; a
\* participant page loaded with an id in its address fills the input with it
\* and dials it, holding its captured stream, as the first Peer of the
\* page; no Peer of the participant is made outside init() and a join click.
ShareableAddress ==
  [][/\ \A p \in DOMAIN peers : (HostOpen(p) => url'["H"] = peers[p].id)
     /\ (PartMetaLoaded /\ url["P"] # None)
        => (/\ inputValue' = url["P"]
            /\ localStream["P"] # None
            /\ PeersOf("P") = {}
            /\ DOMAIN peers' = DOMAIN peers \cup {<<"P", 1>>}
            /\ peer'["P"] = <<"P", 1>>
            /\ peers'[<<"P", 1>>].target = url["P"])
     /\ (\E q \in DOMAIN peers' : q \notin DOMAIN peers /\ q[1] = "P")
        => (PartMetaLoaded \/ \E v \in JoinInputs : JoinClick(v))]_vars

\* C26 witness: the host's address carries the id its Peer opened under,
\* and the participant page loaded with that id shows it in the input and
\* has dialled it
LinkDialled ==
  /\ <<"H", 1>> \in DOMAIN peers /\ peers[<<"H", 1>>].opened
  /\ url["H"] = peers[<<"H", 1>>].id
  /\ url["P"] = url["H"]
  /\ inputValue = url["P"]
  /\ PeersOf("P") = {<<"P", 1>>}
  /\ peers[<<"P", 1>>].target = url["P"]

\* the participant is dialling (join screen hidden, no remote stream yet)
\* and an error has been reported to it
DialErrorShown ==
  /\ joinScreen = "none"
  /\ remoteSrc["P"] = None
  /\ status["P"] \in {"ParticipantError", "CallFailed"}

\* C27: an error during a dial leaves a UI the user can retry from: once an
\* error is shown to the dialling participant, eventually the participant is
\* connected or the join screen is shown again.
DialErrorLeadsToRetry ==
  DialErrorShown ~> (ShowsConnected("P") \/ joinScreen = "block")

\* C28: roles are fixed: every Peer of the host page is registered under an
\* id and dials nothing, every Peer of the participant page has no id of
\* its own and a dial target; calls are placed by participant Peers and
\* answered by host Peers only; the host page has no join listener.
RolesFixed ==
  /\ \A p \in DOMAIN peers :
       IF isHost(p[1])
       THEN peers[p].id # None /\ peers[p].target = None
       ELSE peers[p].id = None /\ peers[p].target # None
  /\ \A c \in DOMAIN calls :
       /\ ~isHost(c[1])
       /\ ~isHost(calls[c].via[1])
       /\ calls[c].hostPeer # None => isHost(calls[c].hostPeer[1])
  /\ "join" \notin listeners["H"]

\* C28 witness: the host page has registered again after a hang-up and the
\* participant page has dialled twice, and a call was answered
BothRolesActedTwice ==
  /\ Cardinality(PeersOf("H")) = 2
  /\ Cardinality(PeersOf("P")) = 2
  /\ \E c \in DOMAIN calls : calls[c].answered

\* C29: on the host, frameCount increases by exactly one on every display
\* tick that passes the stream guard and on no other step, and the ticks at
\* which detectDeepfakeArtifacts has been invoked are exactly those, once the
\* models are ready, whose frameCount is a multiple of INFERENCE_SKIP_RATE.
SamplingCadence ==
  [][/\ frameCount' =
          IF (\E o \in DetectionOutcomes : displayFrame(o))
             /\ localStream["H"] # None
          THEN frameCount + 1 ELSE frameCount
     /\ detectedAt' = {n \in 0..(frameCount' - 1) :
                         isModelReady' /\ n % INFERENCE_SKIP_RATE = 0}]_vars

\* C29 witness: twenty-one ticks have passed and three of them detected
SampledThreeTimes ==
  /\ frameCount = 21
  /\ detectedAt = {0, 10, 20}

\* C30: after every updateVisuals call the removal banner is shown if and
\* only if the confidence of that call is at or above ANOMALY_WARNING_LEVEL,
\* whatever the banner showed before the call.
WarningWithoutDebounce ==
  [][\A o \in DetectionOutcomes :
       (displayFrame(o) /\ detectedAt' # detectedAt) =>
         ((removalAlert' = "block") <=>
            ((IF o.isFake THEN o.confidence ELSE 0)
               >= ANOMALY_WARNING_LEVEL))]_vars

\* C30 witness: the third detection found a fake just below the level and
\* the banner is hidden
BannerHiddenBelowLevel ==
  /\ detectedAt = {0, 10, 20}
  /\ lastDetectionResult = [isFake |-> TRUE, confidence |-> 64]
  /\ removalAlert = "none"

\* C31: at most one detectDeepfakeArtifacts run is suspended at an await at
\* any time.
OneRunInFlight == Cardinality(InFlight) <= 1

\* the connection-related texts of the host's status line
ConnectionStatuses ==
  {"MeetingLive", "IncomingCall", "ParticipantJoined", "HostError"}

\* C32: on the host, a display tick never replaces a connection-related
\* status written to the status line.
DetectionKeepsConnectionStatus ==
  [][((\E o \in DetectionOutcomes : displayFrame(o))
      /\ status["H"] \in ConnectionStatuses)
     => status'["H"] = status["H"]]_vars

\* the host page holds a captured stream and init() is past setupWebcam's
\* getUserMedia
HostCaptured == pc["H"] \in {"meta", "models"} /\ localStream["H"] # None

\* handleHostSession() has run in this load of the host page
HostRegistered == <<"H", loads>> \in DOMAIN peers

\* C33: on the host, once media capture has succeeded, handleHostSession
\* eventually runs, whether the model loading succeeds, returns early or
\* rejects.
CaptureLeadsToRegistration == HostCaptured ~> HostRegistered

\* run r ends in this step without an error: its last await resolves
RunCompletes(r) ==
  /\ runs'[r].at = "done"
  /\ \/ \E n \in 0..MaxFaces : EstimateFacesResolve(r, n)
     \/ \E c \in Classifications : ClassifyResolve(r, c)

\* C34: when a detection run ends without error and flags the frame as fake,
\* the confidence it reports is the probability of a prediction that is
\* itself flagged fake.
ConfidenceOfAFakePrediction ==
  [][\A r \in DOMAIN runs :
       (RunCompletes(r) /\ lastDetectionResult'.isFake) =>
         \E i \in DOMAIN predictions' :
           /\ predictions'[i].isFake
           /\ predictions'[i].probability = lastDetectionResult'.confidence]_vars

\* C35: when a detection run throws, isFake is set, the predictions list is
\* empty, and the confidence passed to updateVisuals (the value
\* lastDetectionResult.confidence holds) is not one an earlier run assigned.
FailClosedOnThrow ==
  [][\A r \in DOMAIN runs :
       DetectionThrows(r) =>
         /\ lastDetectionResult'.isFake
         /\ predictions' = <<>>
         /\ chartData'[Len(chartData')] = lastDetectionResult'.confidence
         /\ confidenceRun' \subseteq {r}]_vars

\* the participant page as endCall leaves it
ParticipantEnded ==
  /\ peer["P"] = None
  /\ localStream["P"] = None
  /\ status["P"] = "CallEnded"
  /\ joinScreen = "block"
  /\ meetingRoom = "none"
  /\ url["P"] = None

\* C36: on the participant page endCall raises no error and leaves the page
\* ended, and invoked on the page as an earlier endCall left it, it changes
\* neither peer, localStream, status, the screens, nor any Peer or track.
EndCallIdempotent ==
  [][endCall("P") =>
       /\ ParticipantEnded'
       /\ errors' = errors
       /\ ParticipantEnded =>
            UNCHANGED <<peer, localStream, status, joinScreen, meetingRoom,
                        url, peers, streams>>]_vars

\* C36 witness: the participant has hung up a call: its Peer is destroyed,
\* its tracks are stopped, and the page is as endCall leaves it
ParticipantHungUpCall ==
  /\ ParticipantEnded
  /\ <<"P", 1>> \in DOMAIN peers /\ peers[<<"P", 1>>].destroyed
  /\ <<"P", 1>> \in DOMAIN streams /\ streams[<<"P", 1>>] # <<>>
  /\ \A i \in DOMAIN streams[<<"P", 1>>] : ~streams[<<"P", 1>>][i].live

\* C37: joinMeeting(id) shows the meeting room if and only if id is exactly
\* 8 characters long and equals the stored host id; in every other case the
\* join screen, the meeting room and the displayed id are left unchanged.
FallbackJoinMatchesStored ==
  [][\A id \in JoinCandidates(minted) :
       joinMeeting(id) =>
         IF Len(id) = 8 /\ minted # None /\ id = minted
         THEN /\ meetingRoom' = "block"
              /\ joinScreen' = "none"
              /\ idDisplay'["P"] = id
         ELSE UNCHANGED <<joinScreen, meetingRoom, idDisplay>>]_vars

\* C37 witness: the meeting room is shown for the stored 8-character id
FallbackJoined ==
  /\ meetingRoom = "block"
  /\ joinScreen = "none"
  /\ Len(minted) = 8
  /\ idDisplay["P"] = minted

\* C38: the confidence chart holds at most maxDataPoints points, and its
\* labels list and its data list have the same length.
ChartBounded ==
  /\ Len(chartLabels) <= maxDataPoints
  /\ Len(chartData) = Len(chartLabels)

\* C38 witness: the chart is full, its oldest points have been dropped and
\* its newest point is that of a fake at confidence 0.94
ChartShifted ==
  /\ Len(chartData) = maxDataPoints
  /\ chartLabels[1] > INFERENCE_SKIP_RATE
  /\ chartData[maxDataPoints] = 94

====
